---- MODULE Spec2Model ----
(***************************************************************************)
(* SafeHarbor community forum: the /api/forum handler over the Supabase    *)
(* tables forum_threads and forum_posts, and the two forms that post to    *)
(* it.  A JavaScript string is a sequence of one-character strings, so     *)
(* that .length, .trim() and the regular expressions are computed.         *)
(***************************************************************************)
EXTENDS Integers, Sequences, FiniteSets, TLC

(***************************************************************************)
(* Bounds of the exploration.                                              *)
(***************************************************************************)
\* requests handled at the same time
MaxInFlight == 2
\* POST requests issued in one behaviour: an ordinary one takes one unit of
\* the budget, a boundary-value one (long, short, PII-bearing) ProbeCost
MaxBudget == 3
ProbeCost == 2
\* milliseconds that pass in one behaviour of the identity provider
MaxTicks == 2
\* page loads in one session of the tab
MaxLoads == 2
\* characters after "anon_" in the ids given to generatePseudonym
MaxSuffix == 2
\* calls of generatePseudonym in one behaviour
MaxCalls == 2
\* changes of the route of the thread page in one behaviour
MaxNavs == 3
\* messages sent from the chat page in one behaviour
MaxSends == 2
\* requests to the journal API in one behaviour
MaxJournal == 3

(***************************************************************************)
(* Strings.                                                                *)
(***************************************************************************)
\* JavaScript undefined, for an absent query parameter or body field
Undefined == <<"undefined">>

\* the string of n copies of the character c
Rep(c, n) == [i \in 1..n |-> c]

Digit == {"0", "1", "2", "3", "4", "5", "6", "7", "8", "9"}

Lower ==
  {"a", "b", "c", "d", "e", "f", "g", "h", "i", "j", "k", "l", "m",
   "n", "o", "p", "q", "r", "s", "t", "u", "v", "w", "x", "y", "z"}

Upper ==
  {"A", "B", "C", "D", "E", "F", "G", "H", "I", "J", "K", "L", "M",
   "N", "O", "P", "Q", "R", "S", "T", "U", "V", "W", "X", "Y", "Z"}

\* \w of a JavaScript regular expression
WordChar == Digit \cup Lower \cup Upper \cup {"_"}

\* white space removed by String.prototype.trim
WhiteSpace == {" ", "\t", "\n"}

IsWord(s, k) == k \in 1..Len(s) /\ s[k] \in WordChar

\* \b holds between position i-1 and position i of s
WordBoundary(s, i) == IsWord(s, i - 1) # IsWord(s, i)

\* [A-Za-z0-9._%+-]
EmailLocal == Lower \cup Upper \cup Digit \cup {".", "_", "%", "+", "-"}

\* [A-Za-z0-9.-]
EmailDomain == Lower \cup Upper \cup Digit \cup {".", "-"}

\* [A-Z|a-z]
EmailTld == Upper \cup Lower \cup {"|"}

AllIn(s, lo, hi, class) == \A k \in lo..hi : s[k] \in class

\* /\b[A-Za-z0-9._%+-]+@[A-Za-z0-9.-]+\.[A-Z|a-z]{2,}\b/.test(s)
emailPattern(s) ==
  \E a \in {k \in 1..Len(s) : s[k] = "@"} :
    /\ \E i \in 1..(a - 1) :
         WordBoundary(s, i) /\ AllIn(s, i, a - 1, EmailLocal)
    /\ \E d \in {k \in (a + 2)..Len(s) : s[k] = "."} :
         /\ AllIn(s, a + 1, d - 1, EmailDomain)
         /\ \E e \in (d + 2)..Len(s) :
              AllIn(s, d + 1, e, EmailTld) /\ WordBoundary(s, e + 1)

\* [-.]? at position p: o = 1 consumes a separator, o = 0 consumes nothing
PhoneSep(s, p, o) == o = 1 => (p <= Len(s) /\ s[p] \in {"-", "."})

\* /\b\d{3}[-.]?\d{3}[-.]?\d{4}\b/.test(s)
phonePattern(s) ==
  \E i \in {k \in 1..Len(s) : s[k] \in Digit} :
    \E o1 \in {0, 1}, o2 \in {0, 1} :
      LET last == i + 9 + o1 + o2
      IN /\ last <= Len(s)
         /\ WordBoundary(s, i)
         /\ AllIn(s, i, i + 2, Digit)
         /\ PhoneSep(s, i + 3, o1)
         /\ AllIn(s, i + 3 + o1, i + 5 + o1, Digit)
         /\ PhoneSep(s, i + 6 + o1, o2)
         /\ AllIn(s, i + 6 + o1 + o2, last, Digit)
         /\ WordBoundary(s, last + 1)

RECURSIVE TrimStart(_)
TrimStart(s) ==
  IF s # <<>> /\ Head(s) \in WhiteSpace THEN TrimStart(Tail(s)) ELSE s

RECURSIVE TrimEnd(_)
TrimEnd(s) ==
  IF s # <<>> /\ s[Len(s)] \in WhiteSpace
  THEN TrimEnd(SubSeq(s, 1, Len(s) - 1))
  ELSE s

\* String.prototype.trim
trim(s) == TrimEnd(TrimStart(s))

\* !x for a string-or-undefined value
Falsy(x) == x = Undefined \/ x = <<>>

(***************************************************************************)
(* JavaScript numbers as far as the handler uses them.                     *)
(***************************************************************************)
Num(v) == [nan |-> FALSE, inf |-> FALSE, v |-> v]

NaN == [nan |-> TRUE, inf |-> FALSE, v |-> 0]

Infinity == [nan |-> FALSE, inf |-> TRUE, v |-> 0]

DigitValue(c) ==
  CASE c = "0" -> 0 [] c = "1" -> 1 [] c = "2" -> 2 [] c = "3" -> 3
    [] c = "4" -> 4 [] c = "5" -> 5 [] c = "6" -> 6 [] c = "7" -> 7
    [] c = "8" -> 8 [] c = "9" -> 9

\* the value of the longest prefix of digits of s, read after acc
RECURSIVE DigitsValue(_, _)
DigitsValue(s, acc) ==
  IF s # <<>> /\ Head(s) \in Digit
  THEN DigitsValue(Tail(s), 10 * acc + DigitValue(Head(s)))
  ELSE acc

\* parseInt(s) of a decimal string: white space, a sign, digits; NaN when
\* no digit follows
parseInt(s) ==
  LET t == TrimStart(s)
      signed == t # <<>> /\ Head(t) \in {"+", "-"}
      u == IF signed THEN Tail(t) ELSE t
  IN IF u = <<>> \/ Head(u) \notin Digit
     THEN NaN
     ELSE Num(IF signed /\ Head(t) = "-"
              THEN 0 - DigitsValue(u, 0)
              ELSE DigitsValue(u, 0))

\* Math.ceil(a / b) for a >= 0 and b > 0
Ceil(a, b) == (a + b - 1) \div b

\* Math.ceil(a / b) for the numbers a > 0 and b
CeilOfQuotient(a, b) ==
  IF b.nan
  THEN NaN
  ELSE IF b.v = 0
  THEN Infinity
  ELSE IF b.v > 0
  THEN Num(Ceil(a, b.v))
  ELSE Num(0 - (a \div (0 - b.v)))

(***************************************************************************)
(* The store: tables forum_threads and forum_posts.                        *)
(***************************************************************************)
VARIABLES
  threads,    \* rows of forum_threads
  posts,      \* rows of forum_posts
  now,        \* the clock; every reading of it is later than the one before
  inflight,   \* the requests being handled: each its await and its locals
  resp,       \* the response sent by the last step, NoResp when it sent none
  form,       \* the new-thread and reply forms of the browser
  budget,     \* what is left of MaxBudget
  sessionStorage,  \* the item 'safeharbor_anonymous_id' of the tab
  anonymousId,     \* the state of the mounted CommunityProvider
  rendered,        \* the anonymousId of the last render on the server
  dateNow,         \* Date.now()
  loads,           \* page loads in the tab since its session began
  storage,         \* what the browser lets the page do with sessionStorage
  localStorage,    \* the item 'safeharbor_user_id' of the browser
  lastOp,          \* the last operation of the identity provider
  discarded,       \* the id last replaced in this session of the tab
  ended,           \* the id dropped with the last session of the tab
  pseudonym,       \* the calls of generatePseudonym: the last and the one before
  view,            \* the thread page: its route, its state, its fetches
  chat,            \* the chat page: its state and its request to /api/chat
  journal          \* the journal API: its tables and its last response

\* the forum: the store, the handler and the forms
forumVars == <<threads, posts, now, inflight, resp, form, budget>>

\* the anonymous identity provider
idVars ==
  <<sessionStorage, anonymousId, rendered, dateNow, loads, storage,
    localStorage, lastOp, discarded, ended>>

vars ==
  <<threads, posts, now, inflight, resp, form, budget,
    sessionStorage, anonymousId, rendered, dateNow, loads, storage,
    localStorage, lastOp, discarded, ended, pseudonym, view, chat, journal>>

\* what is not the forum
notForum == <<idVars, pseudonym, view, chat, journal>>

\* what is not the identity provider
notId == <<forumVars, pseudonym, view, chat, journal>>

\* what is not the pseudonym generator
notPseudonym == <<forumVars, idVars, view, chat, journal>>

\* what is not the thread page
notPage == <<forumVars, idVars, pseudonym, chat, journal>>

\* what is not the chat page
notChat == <<forumVars, idVars, pseudonym, view, journal>>

\* what is not the journal API
notJournal == <<forumVars, idVars, pseudonym, view, chat>>

\* threadId absent from the query or the body
NoId == 0

\* a thread id that names no row
UnknownId == MaxBudget + 1

NoThread ==
  [id |-> NoId, title |-> <<>>, author_id |-> <<>>,
   created_at |-> 0, last_activity |-> 0]

NoPost ==
  [id |-> NoId, thread_id |-> NoId, content |-> <<>>, author_id |-> <<>>,
   created_at |-> 0]

\* insert into forum_threads: id, created_at and last_activity are defaults
NewThread(title, authorId) ==
  [id |-> Cardinality(threads) + 1, title |-> title, author_id |-> authorId,
   created_at |-> now, last_activity |-> now]

\* NewPost as it would be if a later post got an earlier created_at
NewPostBackdated(threadId, content, authorId) ==
  [id |-> Cardinality(posts) + 1, thread_id |-> threadId,
   content |-> content, author_id |-> authorId, created_at |-> 0 - now]

\* insert into forum_posts: id and created_at are defaults
NewPost(threadId, content, authorId) ==
  [id |-> Cardinality(posts) + 1, thread_id |-> threadId,
   content |-> content, author_id |-> authorId, created_at |-> now]

\* ForeignKeyHolds as it would be without the references clause
NoForeignKey(threadId) == TRUE

\* thread_id uuid references forum_threads(id) not null
ForeignKeyHolds(threadId) == \E t \in threads : t.id = threadId

\* ListOrder as it would be if the list were ordered by created_at
RECURSIVE ListOrderByCreatedAt(_)
ListOrderByCreatedAt(rows) ==
  IF rows = {}
  THEN <<>>
  ELSE LET first ==
             CHOOSE r \in rows : \A q \in rows : r.created_at >= q.created_at
       IN <<first>> \o ListOrderByCreatedAt(rows \ {first})

\* .order('last_activity', { ascending: false })
RECURSIVE ListOrder(_)
ListOrder(rows) ==
  IF rows = {}
  THEN <<>>
  ELSE LET first ==
             CHOOSE r \in rows :
               \A q \in rows : r.last_activity >= q.last_activity
       IN <<first>> \o ListOrder(rows \ {first})

\* RepliesOrder as it would be with { ascending: false }
RECURSIVE RepliesOrderDescending(_)
RepliesOrderDescending(rows) ==
  IF rows = {}
  THEN <<>>
  ELSE LET first ==
             CHOOSE r \in rows : \A q \in rows : r.created_at >= q.created_at
       IN <<first>> \o RepliesOrderDescending(rows \ {first})

\* .order('created_at', { ascending: true })
RECURSIVE RepliesOrder(_)
RepliesOrder(rows) ==
  IF rows = {}
  THEN <<>>
  ELSE LET first ==
             CHOOSE r \in rows : \A q \in rows : r.created_at <= q.created_at
       IN <<first>> \o RepliesOrder(rows \ {first})

\* .range(from, to) of an ordered result: rows from..to, counted from 0
Range(rows, from, to) ==
  SubSeq(rows, from + 1, IF to + 1 < Len(rows) THEN to + 1 ELSE Len(rows))

\* messages of the errors the store returns
TransportMessage == "fetch failed"

NoRowsMessage == "JSON object requested, multiple (or no) rows returned"

ForeignKeyMessage ==
  "insert or update on table forum_posts violates foreign key constraint"

RangeMessage == "Requested range not satisfiable"

(***************************************************************************)
(* Requests and responses of /api/forum.                                   *)
(***************************************************************************)
Request(method, threadId, page, limit, title, content, authorId, via) ==
  [method |-> method, threadId |-> threadId, page |-> page, limit |-> limit,
   title |-> title, content |-> content, authorId |-> authorId, via |-> via]

NoReq ==
  Request("NONE", NoId, Undefined, Undefined, Undefined, Undefined,
          Undefined, "api")

GetThread(threadId) ==
  Request("GET", threadId, Undefined, Undefined, Undefined, Undefined,
          Undefined, "api")

ListThreads(page, limit) ==
  Request("GET", NoId, page, limit, Undefined, Undefined, Undefined, "api")

CreateThread(title, content, authorId, via) ==
  Request("POST", NoId, Undefined, Undefined, title, content, authorId, via)

CreateReply(threadId, content, authorId, via) ==
  Request("POST", threadId, Undefined, Undefined, Undefined, content,
          authorId, via)

\* rows a request has stored
Rows(nThreads, nPosts) == [threads |-> nThreads, posts |-> nPosts]

\* a response: its status and body, with the request it answers and what
\* the handling of that request did to the store: the store calls it
\* issued, whether one of them failed, the rows it stored
NoResp ==
  [status |-> 0, kind |-> "none", req |-> NoReq, error |-> "",
   thread |-> NoThread, replies |-> <<>>, threads |-> <<>>, page |-> NaN,
   totalPages |-> NaN, data |-> NoPost,
   calls |-> 0, failed |-> FALSE, stored |-> Rows(0, 0)]

\* res.status(status).json({ error })
ErrorResp(req, status, error) ==
  [NoResp EXCEPT !.status = status, !.kind = "error", !.req = req,
                 !.error = error]

\* res.status(200).json({ ...thread, replies })
ThreadResp(req, thread, replies) ==
  [NoResp EXCEPT !.status = 200, !.kind = "thread", !.req = req,
                 !.thread = thread, !.replies = replies]

\* res.status(200).json({ threads, page, totalPages })
ListResp(req, rows, page, totalPages) ==
  [NoResp EXCEPT !.status = 200, !.kind = "list", !.req = req,
                 !.threads = rows, !.page = page, !.totalPages = totalPages]

\* res.status(201).json(data) of a reply
ReplyResp(req, data) ==
  [NoResp EXCEPT !.status = 201, !.kind = "reply", !.req = req,
                 !.data = data]

\* res.status(201).json(thread) of a new thread
CreatedResp(req, thread) ==
  [NoResp EXCEPT !.status = 201, !.kind = "created", !.req = req,
                 !.thread = thread]

(***************************************************************************)
(* The handler.  A request being handled waits at one of its awaits; pc    *)
(* names the store call it waits for.                                      *)
(***************************************************************************)
\* a request being handled: the store call it awaits and its locals.  Two
\* requests in flight never agree in all of these: each holds a row of its
\* own, or is the one GET
Invocation(pc, req, thread, data, stamp) ==
  [pc |-> pc, req |-> req, thread |-> thread, data |-> data, stamp |-> stamp]

\* a request that has reached no await yet
Entering == Invocation("entry", NoReq, NoThread, NoPost, 0)

\* Entry as it would be if a POST with threadId created a thread too
EntryIgnoringThreadId(req) ==
  IF req.method = "GET"
  THEN [pc |-> IF req.threadId # NoId THEN "selectThread" ELSE "selectList",
        status |-> 0, error |-> ""]
  ELSE IF req.method = "POST"
  THEN IF Falsy(req.authorId) \/ Falsy(req.content)
       THEN [pc |-> "done", status |-> 400,
             error |-> "Missing required fields"]
       ELSE IF emailPattern(req.content)
       THEN [pc |-> "done", status |-> 400,
             error |-> "Content cannot contain email addresses"]
       ELSE IF Falsy(req.title)
       THEN [pc |-> "done", status |-> 400,
             error |-> "Title is required for new threads"]
       ELSE [pc |-> "insertThread", status |-> 0, error |-> ""]
  ELSE [pc |-> "done", status |-> 405, error |-> "Method not allowed"]

\* the handler from its entry to its first await or to the response it
\* sends before any await
Entry(req) ==
  IF req.method = "GET"
  THEN [pc |-> IF req.threadId # NoId THEN "selectThread" ELSE "selectList",
        status |-> 0, error |-> ""]
  ELSE IF req.method = "POST"
  THEN IF Falsy(req.authorId) \/ Falsy(req.content)
       THEN [pc |-> "done", status |-> 400,
             error |-> "Missing required fields"]
       ELSE IF emailPattern(req.content)
       THEN [pc |-> "done", status |-> 400,
             error |-> "Content cannot contain email addresses"]
       ELSE IF req.threadId # NoId
       THEN [pc |-> "insertReply", status |-> 0, error |-> ""]
       ELSE IF Falsy(req.title)
       THEN [pc |-> "done", status |-> 400,
             error |-> "Title is required for new threads"]
       ELSE [pc |-> "insertThread", status |-> 0, error |-> ""]
  ELSE [pc |-> "done", status |-> 405, error |-> "Method not allowed"]

(***************************************************************************)
(* The forms: pages/community/new.tsx and pages/community/thread/[id].tsx.  *)
(***************************************************************************)
FormState(error, submitting) == [error |-> error, submitting |-> submitting]

FreshForm == FormState("", FALSE)

\* the anonymous id the CommunityContext hands to the forms
AnonId == <<"a", "n", "o", "n", "_", "x">>

\* the checks of handleSubmit: the error it sets, "" when it goes on
SubmitError(title, content) ==
  IF Len(trim(title)) = 0 \/ Len(trim(title)) < 3
  THEN "Title must be at least 3 characters long"
  ELSE IF Len(trim(content)) = 0 \/ Len(trim(content)) < 10
  THEN "Content must be at least 10 characters long"
  ELSE IF emailPattern(title) \/ emailPattern(content)
  THEN "Posts cannot contain email addresses"
  ELSE IF phonePattern(title) \/ phonePattern(content)
  THEN "Posts cannot contain phone numbers"
  ELSE ""

\* the checks of handleReply
ReplyError(replyContent) ==
  IF Len(trim(replyContent)) = 0 \/ Len(trim(replyContent)) < 10
  THEN "Reply must be at least 10 characters long"
  ELSE IF emailPattern(replyContent) \/ phonePattern(replyContent)
  THEN "Replies cannot contain email addresses or phone numbers"
  ELSE ""

\* what a form does with the response to its fetch: router.push or
\* router.reload leaves the page when response.ok, else the error is shown
FormAfter(r) ==
  IF r.req.via = "api"
  THEN form
  ELSE LET after == IF r.status \in 200..299
                    THEN FreshForm
                    ELSE FormState(r.error, FALSE)
       IN IF r.req.via = "newForm"
          THEN [form EXCEPT !.new = after]
          ELSE [form EXCEPT !.reply = after]

(***************************************************************************)
(* The anonymous identity provider: CommunityProvider of                   *)
(* src/contexts/CommunityContext.tsx, mounted by the App around every page. *)
(***************************************************************************)
\* null: what sessionStorage.getItem returns for an absent item; also the
\* state of a provider that is not mounted
Null == <<"null">>

\* Date.now() at the start of a behaviour: "z" in base 36, followed by "10"
ClockStart == 35

\* the digits of Number.prototype.toString(36)
Base36Digits ==
  <<"0", "1", "2", "3", "4", "5", "6", "7", "8", "9", "a", "b", "c", "d",
    "e", "f", "g", "h", "i", "j", "k", "l", "m", "n", "o", "p", "q", "r",
    "s", "t", "u", "v", "w", "x", "y", "z">>

\* n.toString(36) for an integer n >= 0
RECURSIVE ToString36(_)
ToString36(n) ==
  IF n < 36
  THEN <<Base36Digits[n + 1]>>
  ELSE ToString36(n \div 36) \o <<Base36Digits[(n % 36) + 1]>>

\* s.substring(from, to) for 0 <= from <= to
substring(s, from, to) ==
  SubSeq(s, from + 1, IF to < Len(s) THEN to ELSE Len(s))

\* values of Math.random().toString(36): "0.k3x9q2m7vab", and "0.i" of 0.5
RandomStrings ==
  {<<"0", ".", "k", "3", "x", "9", "q", "2", "m", "7", "v", "a", "b">>,
   <<"0", ".", "i">>}

\* generateAnonymousId, for the values that Math.random().toString(36) and
\* Date.now() return
generateAnonymousId(random, timestamp) ==
  <<"a", "n", "o", "n">> \o <<"_">> \o substring(random, 2, 10)
    \o <<"_">> \o ToString36(timestamp)

\* the readings of Date.now() possible now: time passes or does not
Clock == {t \in dateNow..(dateNow + 1) : t <= ClockStart + MaxTicks}

\* sessionStorage as the browser grants it: "ok"; "full", where setItem
\* throws QuotaExceededError; "denied", where every access throws
\* SecurityError
Storages == {"ok", "full", "denied"}

\* values of crypto.randomUUID()
UserIds == {<<"u", "1">>, <<"u", "2">>}

\* a call of generatePseudonym
Call(input, output) == [input |-> input, output |-> output]

\* no call of generatePseudonym yet
NoCalls ==
  LET none == Call(Undefined, [adjective |-> "", noun |-> "", number |-> 0])
  IN [calls |-> 0, last |-> none, before |-> none]

\* the thread page as it mounts, before the router has the id: id is the
\* id of the route, thread the id of the thread shown, pending the fetches
\* in flight, each with the id it asks for and the number of the route
\* change that started it; navs counts the route changes and current is
\* the outcome of the fetch started by the last one
ThreadView ==
  [id |-> NoId, thread |-> NoId, loading |-> TRUE, error |-> FALSE,
   pending |-> {}, navs |-> 0, current |-> "none"]

\* a request to the journal API; by is the user whose browser sent it
JournalRequest(by, header, method, type, content, plan) ==
  [by |-> by, header |-> header, method |-> method, type |-> type,
   content |-> content, plan |-> plan]

\* a response of the journal API: entries and plan are those of its body,
\* by is the user who gets it
JournalResp(req, status, entries, plan) ==
  [by |-> req.by, method |-> req.method, status |-> status,
   entries |-> entries, plan |-> plan]

\* the journal API with empty tables: entries are the rows of
\* journal_entries in the order of created_at, plans the rows of
\* safety_plans; each row has by, the user whose request stored it
NoJournal ==
  [entries |-> <<>>, plans |-> {},
   resp |-> [by |-> Null, method |-> "NONE", status |-> 0,
             entries |-> <<>>, plan |-> {}],
   n |-> 0]

\* the chat page as it mounts; fetching tells whether the request to
\* /api/chat is in flight, users and assistants count the messages of each
\* role appended since
Chat ==
  [messages |-> <<>>, input |-> <<>>, loading |-> FALSE, fetching |-> FALSE,
   users |-> 0, assistants |-> 0]

\* the identity provider before the first page load of a tab, for the given
\* grants of sessionStorage and the given items left in localStorage
IdStart(storages, userIds) ==
  /\ sessionStorage = Null
  /\ anonymousId = Null
  /\ rendered = Null
  /\ dateNow = ClockStart
  /\ loads = 0
  /\ storage \in storages
  /\ localStorage \in userIds
  /\ lastOp = "none"
  /\ discarded = Null
  /\ ended = Null

(***************************************************************************)
(* The pseudonym generator.  A hash is an unsigned 32-bit number, held as  *)
(* its two 16-bit halves.                                                  *)
(***************************************************************************)
ADJECTIVES ==
  <<"Brave", "Calm", "Quiet", "Gentle", "Kind", "Steady", "Hopeful",
    "Bright", "Caring", "Soft">>

NOUNS ==
  <<"Harbor", "Star", "River", "Willow", "Lantern", "Sky", "Anchor",
    "Horizon", "Oak", "Ember">>

\* charCodeAt for "_", the digits and the lower-case letters
charCode(c) ==
  IF c = "_"
  THEN 95
  ELSE LET i == CHOOSE k \in 1..36 : Base36Digits[k] = c
       IN IF i <= 10 THEN 47 + i ELSE 86 + i

Word(hi, lo) == [hi |-> hi, lo |-> lo]

\* (hash * 31 + code) >>> 0
HashStep(hash, code) ==
  LET low == hash.lo * 31 + code
  IN Word((hash.hi * 31 + (low \div 65536)) % 65536, low % 65536)

RECURSIVE HashFrom(_, _)
HashFrom(hash, input) ==
  IF input = <<>>
  THEN hash
  ELSE HashFrom(HashStep(hash, charCode(Head(input))), Tail(input))

hashString(input) == HashFrom(Word(0, 0), input)

\* a % b of JavaScript for b > 0: the sign is that of a
Remainder(a, b) == IF a >= 0 THEN a % b ELSE 0 - ((0 - a) % b)

\* hash % m for 0 < m <= 1000
HashMod(hash, m) == ((hash.hi % m) * (65536 % m) + hash.lo) % m

\* hash >> 8: the hash is read as a signed 32-bit number
ShiftRight8(hash) ==
  hash.hi * 256 + (hash.lo \div 256)
    - (IF hash.hi >= 32768 THEN 16777216 ELSE 0)

\* table[index] of a 10-entry array, as the template literal prints it
Entry10(table, index) ==
  IF index \in 0..9 THEN table[index + 1] ELSE "undefined"

\* OrAnon as it would be without the default
OrEmpty(id) == IF Falsy(id) THEN <<>> ELSE id

\* anonymousId || 'anon'
OrAnon(id) == IF Falsy(id) THEN <<"a", "n", "o", "n">> ELSE id

\* generatePseudonym(id): the parts of `${adjective}${noun}-${number}`
generatePseudonym(id) ==
  LET hash == hashString(OrAnon(id))
  IN [adjective |-> Entry10(ADJECTIVES, HashMod(hash, 10)),
      noun |-> Entry10(NOUNS, Remainder(ShiftRight8(hash), 10)),
      number |-> HashMod(hash, 900) + 100]

(***************************************************************************)
(* The inputs explored.                                                    *)
(***************************************************************************)
\* "Hello"
TitleOk == <<"H", "e", "l", "l", "o">>

\* "first post"
ContentOk == <<"f", "i", "r", "s", "t", " ", "p", "o", "s", "t">>

\* "reply text"
ReplyOk == <<"r", "e", "p", "l", "y", " ", "t", "e", "x", "t">>

\* "Hi"
TitleShort == <<"H", "i">>

\* "Hey"
TitleMin == <<"H", "e", "y">>

\* " Hi ", typed into the form
TitlePadded == <<" ", "H", "i", " ">>

\* "a@b.co"
TitleEmail == <<"a", "@", "b", ".", "c", "o">>

\* "555-123-4567"
TitlePhone == <<"5", "5", "5", "-", "1", "2", "3", "-", "4", "5", "6", "7">>

\* "too short"
ContentShort == <<"t", "o", "o", " ", "s", "h", "o", "r", "t">>

\* "mail a@b.co"
ContentEmail == <<"m", "a", "i", "l", " ">> \o TitleEmail

\* "call 555-123-4567"
ContentPhone == <<"c", "a", "l", "l", " ">> \o TitlePhone

\* "call 5551234567"
ContentDigits ==
  <<"c", "a", "l", "l", " ", "5", "5", "5", "1", "2", "3", "4", "5", "6",
    "7">>

\* "call 555-123-456", ContentPhone without its last digit
ContentNoPhone == SubSeq(ContentPhone, 1, Len(ContentPhone) - 1)

\* the thread ids a request names
ThreadIds == (1..(MaxBudget - 1)) \cup {UnknownId}

GetRequests ==
  {GetThread(t) : t \in ThreadIds}
    \cup {ListThreads(p, l) : p \in {Undefined, <<"1">>, <<"2">>},
                             l \in {Undefined, <<"1">>, <<"2">>}}

\* the strings of at most n characters out of "a", "3", "z"
RECURSIVE Suffixes(_)
Suffixes(n) ==
  IF n = 0
  THEN {<<>>}
  ELSE Suffixes(n - 1)
         \cup {Append(w, c) : w \in Suffixes(n - 1), c \in {"a", "3", "z"}}

\* what generatePseudonym is called with: nothing, '', 'anon' and ids
PseudonymInputs ==
  {Undefined, <<>>, <<"a", "n", "o", "n">>}
    \cup {<<"a", "n", "o", "n", "_">> \o w : w \in Suffixes(MaxSuffix)}

\* list requests with such a page or such a limit
ProbeGets ==
  {ListThreads(p, Undefined) : p \in {<<"0">>, <<"-", "1">>, <<"x">>}}
    \cup {ListThreads(Undefined, l) : l \in {<<"0">>, <<"-", "1">>, <<"x">>}}

\* an author id that is no anonymous id: the id of UserContext
UserId == <<"u", "1">>

PlainPosts ==
  {CreateThread(TitleOk, ContentOk, AnonId, "api")}
    \cup {CreateReply(t, ReplyOk, AnonId, "api") : t \in ThreadIds}

ProbePosts ==
  LET titles ==
        {Undefined, <<>>, TitleShort, TitleMin, Rep("a", 200),
         Rep("a", 201), TitleEmail, TitlePhone}
      contents ==
        {Undefined, ContentShort, Rep("a", 2000), Rep("a", 2001),
         Rep("a", 5000), Rep("a", 5001), ContentEmail, ContentPhone,
         ContentDigits, ContentNoPhone}
  IN {CreateThread(t, ContentOk, AnonId, "api") : t \in titles}
       \cup {CreateThread(TitleOk, c, AnonId, "api") : c \in contents}
       \cup {CreateReply(1, c, AnonId, "api") : c \in contents}
       \cup {CreateThread(TitleOk, ContentOk, UserId, "api"),
             CreateReply(1, ReplyOk, UserId, "api")}
       \cup {CreateThread(TitleOk, ContentOk, Undefined, "api"),
             [CreateThread(TitleOk, ContentOk, AnonId, "api")
                EXCEPT !.method = "DELETE"]}

(***************************************************************************)
(* Actions.  A step is one call executed by the store, which may fail,     *)
(* with the handler's code around it: from the entry of the handler or     *)
(* from the previous await up to the call, and from the call's result up   *)
(* to the next await or to the response.  A request whose handler answers  *)
(* before any await is one step.                                           *)
(***************************************************************************)
\* the forum at rest
ForumStart ==
  /\ threads = {}
  /\ posts = {}
  /\ now = 1
  /\ inflight = {}
  /\ resp = NoResp
  /\ form = [new |-> FreshForm, reply |-> FreshForm]
  /\ budget = MaxBudget

\* no call of generatePseudonym yet, no page mounted
Unused ==
  /\ pseudonym = NoCalls
  /\ view = ThreadView
  /\ chat = Chat
  /\ journal = NoJournal

Init ==
  /\ ForumStart
  /\ IdStart({"ok"}, {Null})
  /\ Unused

\* nothing is being handled
Quiet == inflight = {}

\* no boundary-value request is being handled: these are explored one at a
\* time, with nothing else in flight
NoProbe == \A c \in inflight : c.req \in PlainPosts \cup GetRequests

\* the store calls the request c issued before the one it awaits
Calls(c) == IF c.pc = "entry" THEN 0 ELSE 1

\* the rows the request c stored before the call it awaits
StoredBy(c) ==
  Rows(IF c.pc = "insertPost" THEN 1 ELSE 0,
       IF c.pc \in {"newDate", "updateActivity"} THEN 1 ELSE 0)

\* Reject as it would be if the post were inserted before the checks
RejectAfterInsert(r) ==
  /\ resp' = [r EXCEPT !.calls = 1, !.stored = Rows(0, 1)]
  /\ inflight' = inflight
  /\ form' = FormAfter(r)
  /\ posts' =
       posts \cup {NewPost(r.req.threadId, r.req.content, r.req.authorId)}
  /\ UNCHANGED <<threads, now>>

\* the response r, sent before any store call, ends the handling of a
\* request
Reject(r) ==
  /\ resp' = r
  /\ inflight' = inflight
  /\ form' = FormAfter(r)
  /\ UNCHANGED <<threads, posts, now>>

\* the response r, sent after the result of a store call, ends the handling
\* of the request c; failed tells whether a store call of c returned an
\* error, nPosts is the number of post rows the call stored
Respond(c, r, failed, nPosts) ==
  /\ resp' = [r EXCEPT !.calls = Calls(c) + 1,
                       !.failed = failed,
                       !.stored = Rows(StoredBy(c).threads,
                                       StoredBy(c).posts + nPosts)]
  /\ inflight' = inflight \ {c}
  /\ form' = FormAfter(r)

\* the request c goes on to its next await; shown is what the form shows
\* while its fetch is pending
Await(c, next, shown) ==
  /\ resp' = NoResp
  /\ inflight' = (inflight \ {c}) \cup {next}
  /\ form' = shown

\* the page and limit parameters with their defaults '1' and '10'
pageNum(req) ==
  parseInt(IF req.page = Undefined THEN <<"1">> ELSE req.page)

limitNum(req) ==
  parseInt(IF req.limit = Undefined THEN <<"1", "0">> ELSE req.limit)

\* const start = (pageNum - 1) * limitNum
start(req) ==
  IF pageNum(req).nan \/ limitNum(req).nan
  THEN NaN
  ELSE Num((pageNum(req).v - 1) * limitNum(req).v)

\* const end = start + limitNum - 1
end(req) ==
  IF start(req).nan THEN NaN ELSE Num(start(req).v + limitNum(req).v - 1)

\* totalPages as it would be with Math.floor in place of Math.ceil
totalPagesFloor(count, limit) ==
  IF count # 0 /\ ~limit.nan /\ limit.v > 0
  THEN Num(count \div limit.v)
  ELSE Num(1)

\* count ? Math.ceil(count / limitNum) : 1
totalPages(count, limit) ==
  IF count # 0 THEN CeilOfQuotient(count, limit) ELSE Num(1)

\* the offsets from..to are no range of rows: one is NaN, from is negative
\* or to is before from
NoRange(from, to) == from.nan \/ to.nan \/ from.v < 0 \/ to.v < from.v

\* from('forum_threads').select('*').eq('id', threadId).single()
SelectThread(c, req, shown) ==
  /\ LET found == {t \in threads : t.id = req.threadId}
     IN \E failed \in BOOLEAN :
          IF failed
          THEN Respond(c, ErrorResp(req, 500, TransportMessage), TRUE, 0)
          ELSE IF Cardinality(found) # 1
          THEN Respond(c, ErrorResp(req, 500, NoRowsMessage), TRUE, 0)
          ELSE Await(c, Invocation("selectReplies", req, CHOOSE t \in found : TRUE,
                             NoPost, 0), shown)
  /\ UNCHANGED <<threads, posts, now>>

\* from('forum_posts').select('*').eq('thread_id', threadId)
\*   .order('created_at', { ascending: true })
SelectReplies(c) ==
  /\ c.pc = "selectReplies"
  /\ LET req == c.req
         replies == RepliesOrder({p \in posts : p.thread_id = req.threadId})
     IN \E failed \in BOOLEAN :
          Respond(c, IF failed
                     THEN ErrorResp(req, 500, TransportMessage)
                     ELSE ThreadResp(req, c.thread, replies), failed, 0)
  /\ UNCHANGED <<threads, posts, now, budget>>
  /\ UNCHANGED notForum

\* from('forum_threads').select('*', { count: 'exact' })
\*   .order('last_activity', { ascending: false }).range(start, end)
\* The store's answer to offsets that are no range depends on the store:
\* it refuses them, or it answers no rows with the count.
SelectList(c, req, shown) ==
  /\ LET from == start(req)
         to == end(req)
         pages == totalPages(Cardinality(threads), limitNum(req))
     IN \E failed \in BOOLEAN :
          IF failed
          THEN Respond(c, ErrorResp(req, 500, TransportMessage), TRUE, 0)
          ELSE IF NoRange(from, to)
          THEN \E refused \in BOOLEAN :
                 Respond(c, IF refused
                            THEN ErrorResp(req, 500, RangeMessage)
                            ELSE ListResp(req, <<>>, pageNum(req), pages),
                         refused, 0)
          ELSE Respond(c, ListResp(req,
                                  Range(ListOrder(threads), from.v, to.v),
                                  pageNum(req), pages),
                       FALSE, 0)
  /\ UNCHANGED <<threads, posts, now>>

\* from('forum_posts').insert([{ thread_id, content, author_id }])
\*   .select().single()
InsertReply(c, req, shown) ==
  /\ LET data == NewPost(req.threadId, req.content, req.authorId)
     IN \E failed \in BOOLEAN :
          IF failed
          THEN /\ Respond(c, ErrorResp(req, 500, TransportMessage), TRUE, 0)
               /\ UNCHANGED <<posts, now>>
          ELSE IF ~ForeignKeyHolds(req.threadId)
          THEN /\ Respond(c, ErrorResp(req, 500, ForeignKeyMessage), TRUE, 0)
               /\ UNCHANGED <<posts, now>>
          ELSE /\ posts' = posts \cup {data}
               /\ now' = now + 1
               /\ Await(c, Invocation("newDate", req, NoThread, data, 0),
                        shown)
  /\ UNCHANGED threads

\* the handler goes on after the insert: new Date() for the update, which
\* it sends to the store
NewDate(c) ==
  /\ c.pc = "newDate"
  /\ now' = now + 1
  /\ Await(c, Invocation("updateActivity", c.req, NoThread, c.data, now),
           form)
  /\ UNCHANGED <<threads, posts, budget>>
  /\ UNCHANGED notForum

\* UpdateActivity as it would be without .eq('id', threadId)
UpdateActivityOfAll(c) ==
  /\ c.pc = "updateActivity"
  /\ \E failed \in BOOLEAN :
       /\ threads' =
            IF failed
            THEN threads
            ELSE {[t EXCEPT !.last_activity = c.stamp] : t \in threads}
       /\ Respond(c, ReplyResp(c.req, c.data), failed, 0)
  /\ UNCHANGED <<posts, now, budget>>
  /\ UNCHANGED notForum

\* from('forum_threads').update({ last_activity }).eq('id', threadId); its
\* result is not looked at
UpdateActivity(c) ==
  /\ c.pc = "updateActivity"
  /\ LET req == c.req
     IN \E failed \in BOOLEAN :
          /\ threads' =
               IF failed
               THEN threads
               ELSE {IF t.id = req.threadId
                     THEN [t EXCEPT !.last_activity = c.stamp]
                     ELSE t : t \in threads}
          /\ Respond(c, ReplyResp(req, c.data), failed, 0)
  /\ UNCHANGED <<posts, now, budget>>
  /\ UNCHANGED notForum

\* from('forum_threads').insert([{ title, author_id }]).select().single()
InsertThread(c, req, shown) ==
  /\ LET thread == NewThread(req.title, req.authorId)
     IN \E failed \in BOOLEAN :
          IF failed
          THEN /\ Respond(c, ErrorResp(req, 500, TransportMessage), TRUE, 0)
               /\ UNCHANGED <<threads, now>>
          ELSE /\ threads' = threads \cup {thread}
               /\ now' = now + 1
               /\ Await(c, Invocation("insertPost", req, thread, NoPost, 0), shown)
  /\ UNCHANGED posts

\* from('forum_posts').insert([{ thread_id: thread.id, content, author_id }])
InsertPost(c) ==
  /\ c.pc = "insertPost"
  /\ LET req == c.req
         thread == c.thread
     IN \E failed \in BOOLEAN :
          IF failed
          THEN /\ Respond(c, ErrorResp(req, 500, TransportMessage), TRUE, 0)
               /\ UNCHANGED <<posts, now>>
          ELSE /\ posts' =
                    posts \cup {NewPost(thread.id, req.content, req.authorId)}
               /\ now' = now + 1
               /\ Respond(c, CreatedResp(req, thread), FALSE, 1)
  /\ UNCHANGED <<threads, budget>>
  /\ UNCHANGED notForum

\* the handler is entered with req and runs to the result of its first
\* store call, or to the response it sends before any
Handle(req, shown) ==
  /\ Cardinality(inflight) < MaxInFlight
  /\ LET e == Entry(req)
     IN CASE e.pc = "done" -> Reject(ErrorResp(req, e.status, e.error))
          [] e.pc = "selectThread" -> SelectThread(Entering, req, shown)
          [] e.pc = "selectList" -> SelectList(Entering, req, shown)
          [] e.pc = "insertReply" -> InsertReply(Entering, req, shown)
          [] e.pc = "insertThread" -> InsertThread(Entering, req, shown)

\* a GET request; reads change nothing, so one at a time is explored, and
\* none right after the answer to another, whose store it would see again
Get ==
  \E req \in GetRequests :
    /\ NoProbe
    /\ resp.req.method # "GET"
    /\ \A c \in inflight : c.req.method # "GET"
    /\ Handle(req, form)
    /\ UNCHANGED budget
    /\ UNCHANGED notForum

\* a list request with a boundary value, explored like a GET
ProbeGet ==
  \E req \in ProbeGets :
    /\ Quiet
    /\ resp.req.method # "GET"
    /\ Handle(req, form)
    /\ UNCHANGED budget
    /\ UNCHANGED notForum

\* an ordinary POST request
Post ==
  \E req \in PlainPosts :
    /\ budget >= 1
    /\ NoProbe
    /\ budget' = budget - 1
    /\ Handle(req, form)
    /\ UNCHANGED notForum

\* a boundary-value request
Probe ==
  \E req \in ProbePosts :
    /\ budget >= ProbeCost
    /\ Quiet
    /\ budget' = budget - ProbeCost
    /\ Handle(req, form)
    /\ UNCHANGED notForum

\* handleSubmit of the new-thread form
handleSubmit ==
  \E title \in {TitlePadded, TitleOk, TitleEmail},
     content \in {ContentShort, ContentOk, ContentPhone} :
    /\ budget >= ProbeCost
    /\ Quiet
    /\ ~form.new.submitting
    /\ budget' = budget - ProbeCost
    /\ UNCHANGED notForum
    /\ IF SubmitError(title, content) # ""
       THEN /\ form' =
                 [form EXCEPT
                    !.new = FormState(SubmitError(title, content), FALSE)]
            /\ resp' = NoResp
            /\ UNCHANGED <<threads, posts, now, inflight>>
       ELSE Handle(CreateThread(trim(title), trim(content), AnonId,
                                "newForm"),
                   [form EXCEPT !.new = FormState("", TRUE)])

\* handleReply of the thread page showing thread id
handleReply ==
  \E id \in ThreadIds \ {UnknownId},
     replyContent \in {ContentShort, ReplyOk, ContentEmail, ContentDigits} :
    /\ budget >= ProbeCost
    /\ Quiet
    /\ ~form.reply.submitting
    /\ budget' = budget - ProbeCost
    /\ UNCHANGED notForum
    /\ IF ReplyError(replyContent) # ""
       THEN /\ form' =
                 [form EXCEPT
                    !.reply = FormState(ReplyError(replyContent), FALSE)]
            /\ resp' = NoResp
            /\ UNCHANGED <<threads, posts, now, inflight>>
       ELSE Handle(CreateReply(id, trim(replyContent), AnonId, "replyForm"),
                   [form EXCEPT !.reply = FormState("", TRUE)])

Next ==
  \/ Get
  \/ ProbeGet
  \/ Post
  \/ Probe
  \/ handleSubmit
  \/ handleReply
  \/ \E c \in inflight : SelectReplies(c)
  \/ \E c \in inflight : NewDate(c)
  \/ \E c \in inflight : UpdateActivity(c)
  \/ \E c \in inflight : InsertPost(c)

Spec == Init /\ [][Next]_vars

\* the forum after two createThread requests, at rest: two threads, each
\* with its first post
TwoThreads ==
  /\ threads =
       {[id |-> 1, title |-> TitleOk, author_id |-> AnonId,
         created_at |-> 1, last_activity |-> 1],
        [id |-> 2, title |-> TitleOk, author_id |-> AnonId,
         created_at |-> 3, last_activity |-> 3]}
  /\ posts =
       {[id |-> 1, thread_id |-> 1, content |-> ContentOk,
         author_id |-> AnonId, created_at |-> 2],
        [id |-> 2, thread_id |-> 2, content |-> ContentOk,
         author_id |-> AnonId, created_at |-> 4]}
  /\ now = 5
  /\ inflight = {}
  /\ resp = NoResp
  /\ form = [new |-> FreshForm, reply |-> FreshForm]
  /\ budget = MaxBudget - 1

ReplyInit == TwoThreads /\ IdStart({"ok"}, {Null}) /\ Unused

ReplySpec == ReplyInit /\ [][Next]_vars

(***************************************************************************)
(* Actions of the identity provider.  The tab has one CommunityProvider at *)
(* a time; it is mounted when a page is loaded and gone when the page is   *)
(* left.                                                                   *)
(***************************************************************************)
\* if (stored)
Truthy(stored) == stored # Null /\ stored # <<>>

\* the initializer of useState throws: sessionStorage cannot be reached, or
\* it holds no id and the new one cannot be set
InitializerThrows ==
  storage = "denied" \/ (storage = "full" /\ ~Truthy(sessionStorage))

\* InitializerInBrowser as it would be without the reading of the item
InitializerIgnoringStored(random, timestamp) ==
  LET newId == generateAnonymousId(random, timestamp)
  IN /\ sessionStorage' = newId
     /\ anonymousId' = newId

\* InitializerInBrowser as it would be if the id were made of the user id
InitializerFromUserId(random, timestamp) ==
  LET newId == <<"a", "n", "o", "n", "_">> \o localStorage
  IN /\ sessionStorage' = newId
     /\ anonymousId' = newId

\* the initializer of useState in the browser: window is defined.  When it
\* throws, the render fails and no provider is mounted
InitializerInBrowser(random, timestamp) ==
  LET stored == sessionStorage
  IN IF InitializerThrows
     THEN /\ anonymousId' = Null
          /\ sessionStorage' = sessionStorage
     ELSE IF Truthy(stored)
     THEN /\ anonymousId' = stored
          /\ sessionStorage' = sessionStorage
     ELSE LET newId == generateAnonymousId(random, timestamp)
          IN /\ sessionStorage' = newId
             /\ anonymousId' = newId

\* a page is rendered on the server, where window is undefined: the
\* initializer returns a new id and stores nothing
RenderOnServer ==
  \E random \in RandomStrings, timestamp \in Clock :
    /\ rendered' = generateAnonymousId(random, timestamp)
    /\ dateNow' = timestamp
    /\ lastOp' = "render"
    /\ UNCHANGED <<sessionStorage, anonymousId, loads, storage, localStorage,
                   discarded, ended>>
    /\ UNCHANGED notId

\* the effect of UserProvider, run once the tree is mounted
UserEffect(uuid) ==
  localStorage' = IF localStorage = Null THEN uuid ELSE localStorage

\* the page is loaded in the tab and the providers are mounted
Mount ==
  \E random \in RandomStrings, timestamp \in Clock, uuid \in UserIds :
    /\ anonymousId = Null
    /\ loads < MaxLoads
    /\ InitializerInBrowser(random, timestamp)
    /\ IF InitializerThrows
       THEN lastOp' = "mountThrew" /\ UNCHANGED localStorage
       ELSE lastOp' = "mount" /\ UserEffect(uuid)
    /\ dateNow' = timestamp
    /\ loads' = loads + 1
    /\ UNCHANGED <<rendered, storage, discarded, ended>>
    /\ UNCHANGED notId

\* the page is left or reloaded: the provider and its state are gone, the
\* tab's sessionStorage stays
Unload ==
  /\ anonymousId # Null
  /\ anonymousId' = Null
  /\ lastOp' = "unload"
  /\ UNCHANGED <<sessionStorage, rendered, dateNow, loads, storage,
                 localStorage, discarded, ended>>
  /\ UNCHANGED notId

\* generateNewAnonymousId as it would be without setItem
generateNewUncached ==
  \E random \in RandomStrings, timestamp \in Clock :
    /\ anonymousId # Null
    /\ anonymousId' = generateAnonymousId(random, timestamp)
    /\ discarded' = anonymousId
    /\ lastOp' = "regenerate"
    /\ dateNow' = timestamp
    /\ UNCHANGED <<sessionStorage, rendered, loads, storage, localStorage,
                   ended>>
    /\ UNCHANGED notId

\* generateNewAnonymousId of the mounted provider: setAnonymousId, then
\* setItem, which may throw
generateNewAnonymousId ==
  \E random \in RandomStrings, timestamp \in Clock :
    /\ anonymousId # Null
    /\ LET newId == generateAnonymousId(random, timestamp)
       IN /\ anonymousId' = newId
          /\ IF storage = "ok"
             THEN sessionStorage' = newId /\ lastOp' = "regenerate"
             ELSE UNCHANGED sessionStorage /\ lastOp' = "regenerateThrew"
    /\ discarded' = anonymousId
    /\ dateNow' = timestamp
    /\ UNCHANGED <<rendered, loads, storage, localStorage, ended>>
    /\ UNCHANGED notId

\* the tab is closed: the browser drops its sessionStorage and keeps its
\* localStorage
EndSession ==
  /\ sessionStorage' = Null
  /\ anonymousId' = Null
  /\ loads' = 0
  /\ lastOp' = "endSession"
  /\ discarded' = Null
  /\ ended' = IF sessionStorage # Null THEN sessionStorage ELSE ended
  /\ UNCHANGED <<rendered, dateNow, storage, localStorage>>
  /\ UNCHANGED notId

\* the browser's grant of sessionStorage changes: the quota is reached or
\* freed, the site's permission is withdrawn or given
StorageChanges ==
  \E granted \in Storages \ {storage} :
    /\ storage' = granted
    /\ lastOp' = "storage"
    /\ UNCHANGED <<sessionStorage, anonymousId, rendered, dateNow, loads,
                   localStorage, discarded, ended>>
    /\ UNCHANGED notId

IdNext ==
  \/ RenderOnServer
  \/ Mount
  \/ Unload
  \/ generateNewAnonymousId
  \/ EndSession

\* a tab whose sessionStorage works, in a browser that may hold a user id
IdInit ==
  /\ IdStart({"ok"}, UserIds \cup {Null})
  /\ ForumStart
  /\ Unused

IdSpec == IdInit /\ [][IdNext]_vars

\* a tab whose sessionStorage may fail
IdFailInit ==
  /\ IdStart(Storages, UserIds \cup {Null})
  /\ ForumStart
  /\ Unused

IdFailNext ==
  \/ RenderOnServer
  \/ Mount
  \/ Unload
  \/ generateNewAnonymousId
  \/ EndSession
  \/ StorageChanges

IdFailSpec == IdFailInit /\ [][IdFailNext]_vars

(***************************************************************************)
(* Calls of generatePseudonym, by the components that show an author.      *)
(***************************************************************************)
CallGeneratePseudonym ==
  \E id \in PseudonymInputs :
    /\ pseudonym.calls < MaxCalls
    /\ pseudonym' =
         [calls |-> pseudonym.calls + 1,
          last |-> Call(id, generatePseudonym(id)),
          before |-> pseudonym.last]
    /\ UNCHANGED notPseudonym

PseudonymSpec == Init /\ [][CallGeneratePseudonym]_vars

(***************************************************************************)
(* The thread page.  The component stays mounted when the route goes from  *)
(* one thread to another; the effect runs again for the new id.            *)
(***************************************************************************)
\* the effect of [id]: fetchThread() for the id of the route
RouteChange ==
  \E id \in 1..3 :
    /\ view.navs < MaxNavs
    /\ id # view.id
    /\ view' =
         [view EXCEPT
            !.id = id,
            !.navs = @ + 1,
            !.pending = @ \cup {[id |-> id, n |-> view.navs + 1]},
            !.current = "pending"]
    /\ UNCHANGED notPage

\* a fetch is answered with the thread: setThread, setLoading(false)
FetchThreadOk ==
  \E f \in view.pending :
    /\ view' =
         [view EXCEPT
            !.thread = f.id,
            !.loading = FALSE,
            !.pending = @ \ {f},
            !.current = IF f.n = view.navs THEN "ok" ELSE @]
    /\ UNCHANGED notPage

\* a fetch fails or is answered with an error status: setError,
\* setLoading(false)
FetchThreadFails ==
  \E f \in view.pending :
    /\ view' =
         [view EXCEPT
            !.error = TRUE,
            !.loading = FALSE,
            !.pending = @ \ {f},
            !.current = IF f.n = view.navs THEN "failed" ELSE @]
    /\ UNCHANGED notPage

PageNext == RouteChange \/ FetchThreadOk \/ FetchThreadFails

PageSpec == Init /\ [][PageNext]_vars

(***************************************************************************)
(* The chat page.                                                          *)
(***************************************************************************)
Message(role, content) == [role |-> role, content |-> content]

\* 'I apologize, but I encountered an error.'
Apology ==
  <<"I", " ", "a", "p", "o", "l", "o", "g", "i", "z", "e", ",", " ", "b",
    "u", "t", " ", "I", " ", "e", "n", "c", "o", "u", "n", "t", "e", "r",
    "e", "d", " ", "a", "n", " ", "e", "r", "r", "o", "r", ".">>

\* 'Failed to get response'
FailedToGet ==
  <<"F", "a", "i", "l", "e", "d", " ", "t", "o", " ", "g", "e", "t", " ",
    "r", "e", "s", "p", "o", "n", "s", "e">>

\* the message of the TypeError of a fetch that is rejected
FailedToFetch ==
  <<"F", "a", "i", "l", "e", "d", " ", "t", "o", " ", "f", "e", "t", "c",
    "h">>

\* an error of the body of a response that is not ok
TooMany ==
  <<"T", "o", "o", " ", "m", "a", "n", "y", " ", "r", "e", "q", "u", "e",
    "s", "t", "s">>

\* data.response of a response that is ok
Hello ==
  <<"H", "e", "l", "l", "o">>

\* `Error: ${error.message}`
ErrorText(message) == <<"E", "r", "r", "o", "r", ":", " ">> \o message

\* onChange of the input, which is disabled while loading
onChange ==
  \E text \in {<<>>, <<" ">>, <<"h", "i">>, <<" ", "o", "k">>} :
    /\ ~chat.loading
    /\ text # chat.input
    /\ chat' = [chat EXCEPT !.input = text]
    /\ UNCHANGED notChat

\* handleSend up to its await of fetch('/api/chat')
handleSend ==
  /\ chat.users < MaxSends
  /\ chat' =
       IF trim(chat.input) = <<>> \/ chat.loading
       THEN chat
       ELSE [chat EXCEPT
               !.messages = Append(@, Message("user", chat.input)),
               !.input = <<>>,
               !.loading = TRUE,
               !.fetching = TRUE,
               !.users = @ + 1]
  /\ UNCHANGED notChat

\* handleSend after a response that is ok: the assistant's message, then
\* finally
ChatReplies ==
  \E response \in {Undefined, <<>>, Hello} :
    /\ chat.fetching
    /\ chat' =
         [chat EXCEPT
            !.messages =
              Append(@, Message("assistant",
                                IF Falsy(response) THEN Apology ELSE response)),
            !.loading = FALSE,
            !.fetching = FALSE,
            !.assistants = @ + 1]
    /\ UNCHANGED notChat

\* ChatFails as it would be if catch appended no message
ChatFailsSilently ==
  /\ chat.fetching
  /\ chat' = [chat EXCEPT !.loading = FALSE, !.fetching = FALSE]
  /\ UNCHANGED notChat

\* handleSend after a request that failed: catch, then finally
ChatFails ==
  \E message \in {FailedToFetch, TooMany, FailedToGet} :
    /\ chat.fetching
    /\ chat' =
         [chat EXCEPT
            !.messages = Append(@, Message("assistant", ErrorText(message))),
            !.loading = FALSE,
            !.fetching = FALSE,
            !.assistants = @ + 1]
    /\ UNCHANGED notChat

\* handleClearChat, confirmed
handleClearChat ==
  /\ chat.messages # <<>>
  /\ chat' = [chat EXCEPT !.messages = <<>>]
  /\ UNCHANGED notChat

ChatNext ==
  \/ onChange
  \/ handleSend
  \/ ChatReplies
  \/ ChatFails
  \/ handleClearChat

\* the request to /api/chat is answered or fails in the end
ChatSpec ==
  Init /\ [][ChatNext]_vars /\ WF_vars(ChatReplies \/ ChatFails)

(***************************************************************************)
(* The journal API.  Each request is one call of the store, which may      *)
(* fail, or none.                                                          *)
(***************************************************************************)
\* '00000000-0000-0000-0000-000000000000'
DefaultUserId ==
  Rep("0", 8) \o <<"-">> \o Rep("0", 4) \o <<"-">> \o Rep("0", 4) \o <<"-">>
    \o Rep("0", 4) \o <<"-">> \o Rep("0", 12)

\* req.headers['x-user-id'] || '00000000-0000-0000-0000-000000000000'
userId(req) == IF Falsy(req.header) THEN DefaultUserId ELSE req.header

\* JSON.stringify of a string
stringify(plan) == <<"\"">> \o plan \o <<"\"">>

\* the rows of journal_entries with this user_id, the latest first
RECURSIVE EntriesOf(_, _)
EntriesOf(rows, id) ==
  IF rows = <<>>
  THEN <<>>
  ELSE EntriesOf(Tail(rows), id)
         \o (IF Head(rows).user_id = id THEN <<Head(rows)>> ELSE <<>>)

\* the request is answered
JournalAnswers(req, status, entries, plan) ==
  journal' =
    [journal EXCEPT !.resp = JournalResp(req, status, entries, plan),
                    !.n = @ + 1]

\* POST: a journal entry is stored
JournalPost ==
  \E by \in UserIds : \E header \in {Undefined, by},
     type \in {"journal", "safety-plan"}, content \in {<<>>, <<"a">>},
     failed \in BOOLEAN :
    /\ journal.n < MaxJournal
    /\ LET req == JournalRequest(by, header, "POST", type, content, <<>>)
           row == [id |-> Len(journal.entries) + 1, user_id |-> userId(req),
                   ciphertext |-> content, by |-> by]
       IN IF type # "journal" \/ Falsy(content)
          THEN JournalAnswers(req, 400, <<>>, {})
          ELSE IF failed
          THEN JournalAnswers(req, 500, <<>>, {})
          ELSE journal' =
                 [journal EXCEPT
                    !.entries = Append(@, row),
                    !.resp = JournalResp(req, 201, <<>>, {}),
                    !.n = @ + 1]
    /\ UNCHANGED notJournal

\* GET: the journal entries or the safety plan of userId
JournalGet ==
  \E by \in UserIds : \E header \in {Undefined, by},
     type \in {"journal", "safety-plan"}, failed \in BOOLEAN :
    /\ journal.n < MaxJournal
    /\ LET req == JournalRequest(by, header, "GET", type, <<>>, <<>>)
       IN IF failed
          THEN JournalAnswers(req, 500, <<>>, {})
          ELSE IF type = "safety-plan"
          THEN JournalAnswers(req, 200, <<>>,
                              {p \in journal.plans : p.user_id = userId(req)})
          ELSE JournalAnswers(req, 200,
                              EntriesOf(journal.entries, userId(req)), {})
    /\ UNCHANGED notJournal

\* PUT: the safety plan of userId is stored in place of the one before
JournalPut ==
  \E by \in UserIds : \E header \in {Undefined, by},
     type \in {"journal", "safety-plan"}, plan \in {<<"p">>, <<"q">>},
     failed \in BOOLEAN :
    /\ journal.n < MaxJournal
    /\ LET req == JournalRequest(by, header, "PUT", type, <<>>, plan)
           row == [user_id |-> userId(req), ciphertext |-> stringify(plan),
                   by |-> by]
       IN IF type # "safety-plan"
          THEN JournalAnswers(req, 400, <<>>, {})
          ELSE IF failed
          THEN JournalAnswers(req, 500, <<>>, {})
          ELSE journal' =
                 [journal EXCEPT
                    !.plans =
                      {p \in @ : p.user_id # userId(req)} \cup {row},
                    !.resp = JournalResp(req, 200, <<>>, {}),
                    !.n = @ + 1]
    /\ UNCHANGED notJournal

\* any other method
JournalOther ==
  \E by \in UserIds : \E header \in {Undefined, by} :
    /\ journal.n < MaxJournal
    /\ JournalAnswers(JournalRequest(by, header, "DELETE", "journal",
                                     <<>>, <<>>), 405, <<>>, {})
    /\ UNCHANGED notJournal

JournalNext == JournalPost \/ JournalGet \/ JournalPut \/ JournalOther

JournalSpec == Init /\ [][JournalNext]_vars

(***************************************************************************)
(* Properties.  resp is the response of the step just taken, so a          *)
(* property of resp and the store speaks of the store as that response     *)
(* left it.                                                                *)
(***************************************************************************)
\* a createThread request is between its two inserts
CreatingThread(c) == c.pc = "insertPost"

IsCreateThread(req) == req.method = "POST" /\ req.threadId = NoId

IsCreateReply(req) == req.method = "POST" /\ req.threadId # NoId

IsGetThread(req) == req.method = "GET" /\ req.threadId # NoId

Stored(threadId) == \E t \in threads : t.id = threadId

\* C1: createThread is atomic: whenever no createThread request is being
\* handled, every stored thread has its initial post, a post of that thread
\* by the thread's author.
C1_CreateThreadAtomic ==
  (\A c \in inflight : ~CreatingThread(c))
    => \A t \in threads :
         \E p \in posts : p.thread_id = t.id /\ p.author_id = t.author_id

\* C2: when createReply on thread T is answered 201, the post is stored, T's
\* lastActivity is the time of the request (not before the post), and T is
\* the first thread of the list ordered by lastActivity.
C2_ReplyBumpsThread ==
  resp.kind = "reply"
    => /\ resp.status = 201
       /\ resp.data \in posts
       /\ \E t \in threads :
            /\ t.id = resp.req.threadId
            /\ t.last_activity >= resp.data.created_at
            /\ \A u \in threads : u.last_activity <= t.last_activity

\* the page and limit a list request asks for, read off the request
RequestedPage(req) ==
  CASE req.page = Undefined -> 1
    [] req.page = <<"1">> -> 1
    [] req.page = <<"2">> -> 2

RequestedLimit(req) ==
  CASE req.limit = Undefined -> 10
    [] req.limit = <<"1">> -> 1
    [] req.limit = <<"2">> -> 2

\* the number of stored threads more recently active than t
Rank(t) == Cardinality({u \in threads : u.last_activity > t.last_activity})

\* C3: a listThreads answer for page p and limit l holds exactly the stored
\* threads of ranks (p-1)*l .. p*l-1 by lastActivity descending, in rank
\* order, and echoes p.
C3_ListThreadsPage ==
  (resp.kind = "list" /\ resp.req \in GetRequests)
    => LET p == RequestedPage(resp.req)
           l == RequestedLimit(resp.req)
           wanted == {t \in threads : Rank(t) \in ((p - 1) * l)..(p * l - 1)}
       IN /\ resp.status = 200
          /\ resp.page = Num(p)
          /\ Len(resp.threads) = Cardinality(wanted)
          /\ \A k \in 1..Len(resp.threads) :
               /\ resp.threads[k] \in wanted
               /\ Rank(resp.threads[k]) = (p - 1) * l + k - 1

\* C3 witness: page 2 of a list is answered with a thread while the order by
\* lastActivity differs from the order by createdAt.
C3_Witness ==
  /\ resp.kind = "list"
  /\ resp.req \in GetRequests
  /\ RequestedPage(resp.req) = 2
  /\ Len(resp.threads) >= 1
  /\ \E t \in threads, u \in threads :
       t.created_at < u.created_at /\ t.last_activity > u.last_activity

\* C4: a getThread answer for a stored thread is that thread (its id, title,
\* author and creation time) with exactly the posts of that thread, oldest
\* first.
C4_GetThreadReplies ==
  resp.kind = "thread"
    => LET own == {p \in posts : p.thread_id = resp.req.threadId}
       IN /\ resp.status = 200
          /\ \E t \in threads :
               /\ t.id = resp.req.threadId
               /\ resp.thread.id = t.id
               /\ resp.thread.title = t.title
               /\ resp.thread.author_id = t.author_id
               /\ resp.thread.created_at = t.created_at
          /\ {resp.replies[k] : k \in 1..Len(resp.replies)} = own
          /\ Len(resp.replies) = Cardinality(own)
          /\ \A j \in 1..Len(resp.replies), k \in 1..Len(resp.replies) :
               j < k => resp.replies[j].created_at < resp.replies[k].created_at

\* C4 witness: a thread is returned with two posts while another thread has
\* a post too.
C4_Witness ==
  /\ resp.kind = "thread"
  /\ Len(resp.replies) >= 2
  /\ \E p \in posts : p.thread_id # resp.req.threadId

\* C5: getThread of an id that names no stored thread is answered 404 (the
\* answers to a failed transport aside).
C5_GetThreadNotFound ==
  (/\ resp.kind # "none"
   /\ IsGetThread(resp.req)
   /\ ~Stored(resp.req.threadId)
   /\ resp.error # TransportMessage)
    => resp.status = 404

\* C6: createReply on an id that names no stored thread, its content and
\* author being valid, is answered 404 (the answers to a failed transport
\* aside) and stores no post for that id.
C6_ReplyUnknownThread ==
  /\ \A p \in posts : Stored(p.thread_id)
  /\ (/\ resp.kind # "none"
      /\ IsCreateReply(resp.req)
      /\ ~Stored(resp.req.threadId)
      /\ resp.status # 400
      /\ resp.error # TransportMessage)
       => resp.status = 404

\* C7: no thread is stored with a title shorter than 3 or longer than 200,
\* and an answered createThread with such a title is answered 400.
C7_TitleLength ==
  /\ \A t \in threads : Len(t.title) >= 3 /\ Len(t.title) <= 200
  /\ (/\ resp.kind # "none"
      /\ IsCreateThread(resp.req)
      /\ resp.req.title # Undefined
      /\ (Len(resp.req.title) < 3 \/ Len(resp.req.title) > 200))
       => resp.status = 400

\* C8: no post is stored with content shorter than 10 or longer than 5000,
\* a createThread is answered 201 only for content of 10 to 5000 characters
\* and a createReply only for content of 10 to 2000 characters.
C8_ContentLength ==
  /\ \A p \in posts : Len(p.content) >= 10 /\ Len(p.content) <= 5000
  /\ resp.kind = "created"
       => Len(resp.req.content) >= 10 /\ Len(resp.req.content) <= 5000
  /\ resp.kind = "reply"
       => Len(resp.req.content) >= 10 /\ Len(resp.req.content) <= 2000

\* C9: no stored thread title and no stored post content matches the email
\* pattern, and an answered POST with such a title or content is answered
\* 400.
C9_NoEmailStored ==
  /\ \A t \in threads : ~emailPattern(t.title)
  /\ \A p \in posts : ~emailPattern(p.content)
  /\ (/\ resp.kind # "none"
      /\ resp.req.method = "POST"
      /\ \/ (resp.req.title # Undefined /\ emailPattern(resp.req.title))
         \/ (resp.req.content # Undefined /\ emailPattern(resp.req.content)))
       => resp.status = 400

\* C10: no stored thread title and no stored post content matches the phone
\* pattern, and an answered POST with such a title or content is answered
\* 400.
C10_NoPhoneStored ==
  /\ \A t \in threads : ~phonePattern(t.title)
  /\ \A p \in posts : ~phonePattern(p.content)
  /\ (/\ resp.kind # "none"
      /\ resp.req.method = "POST"
      /\ \/ (resp.req.title # Undefined /\ phonePattern(resp.req.title))
         \/ (resp.req.content # Undefined /\ phonePattern(resp.req.content)))
       => resp.status = 400

\* C11: a step that answers a request with 400 or 405 belongs to a request
\* that issued no store call, and leaves the stored threads and posts as
\* they were.
C11_ValidationBeforeStore ==
  [][resp'.status \in {400, 405}
       => /\ resp'.calls = 0
          /\ resp'.stored = Rows(0, 0)
          /\ threads' = threads
          /\ posts' = posts]_vars

\* C11 witness: a POST whose content holds an email address is answered 400
\* while the store holds a thread and a post.
C11_Witness ==
  /\ resp.status = 400
  /\ resp.req.content = ContentEmail
  /\ threads # {}
  /\ posts # {}

\* C12: a request in whose handling a store operation failed is answered
\* with a 500 {error} response, never with a success status.
C12_StoreFailureAnswered ==
  resp.failed => (resp.status = 500 /\ resp.kind = "error")

\* the messages of the store's errors
StoreMessages ==
  {TransportMessage, NoRowsMessage, ForeignKeyMessage, RangeMessage}

\* C13: the body of the response to a failed store operation is the same
\* whatever message the store's error carries: it is none of the store's
\* messages.
C13_ErrorBodyGeneric ==
  (resp.kind = "error" /\ resp.failed) => resp.error \notin StoreMessages

\* the least n with n * l >= count
PagesNeeded(count, l) ==
  CHOOSE n \in 0..count : n * l >= count /\ (n = 0 \/ (n - 1) * l < count)

\* the answer to listThreads(page=1, limit=10) on an empty store
EmptyStoreAnswer ==
  (/\ resp.kind = "list"
   /\ threads = {}
   /\ RequestedPage(resp.req) = 1
   /\ RequestedLimit(resp.req) = 10)
    => /\ resp.threads = <<>>
       /\ resp.page = Num(1)
       /\ resp.totalPages = Num(1)

\* C14 as stated: a list answer for a positive limit l reports
\* totalPages = ceil(count / l) for every count of stored threads, and the
\* answer on an empty store is threads = [], page = 1, totalPages = 1.
C14_TotalPagesCeil ==
  (resp.kind = "list" /\ resp.req \in GetRequests)
    => /\ resp.totalPages =
            Num(PagesNeeded(Cardinality(threads), RequestedLimit(resp.req)))
       /\ EmptyStoreAnswer

\* C14 amended: a list answer for a positive limit l reports
\* totalPages = ceil(count / l) when the store holds count >= 1 threads and
\* totalPages = 1 when it holds none; the answer on an empty store is
\* threads = [], page = 1, totalPages = 1.
C14_TotalPagesAmended ==
  (resp.kind = "list" /\ resp.req \in GetRequests)
    => /\ resp.totalPages =
            IF threads = {}
            THEN Num(1)
            ELSE Num(PagesNeeded(Cardinality(threads),
                                 RequestedLimit(resp.req)))
       /\ EmptyStoreAnswer

\* C14 witness: three threads are listed two to a page, in two pages.
C14_Witness ==
  /\ resp.kind = "list"
  /\ resp.req \in GetRequests
  /\ Cardinality(threads) = 3
  /\ RequestedLimit(resp.req) = 2
  /\ resp.totalPages = Num(2)

\* C15: a list request that is not answered 400 has queried the store with
\* a start offset >= 0 and an end offset >= start, and a list answer reports
\* a page >= 1 and a finite totalPages.
C15_PageAndLimitPositive ==
  /\ (resp.req.method = "GET" /\ resp.req.threadId = NoId /\ resp.calls > 0)
       => ~NoRange(start(resp.req), end(resp.req))
  /\ resp.kind = "list"
       => /\ ~resp.page.nan /\ resp.page.v >= 1
          /\ ~resp.totalPages.nan /\ ~resp.totalPages.inf

\* the body of a POST passes the handler's checks of authorId and content
BodyAccepted(req) ==
  ~Falsy(req.authorId) /\ ~Falsy(req.content) /\ ~emailPattern(req.content)

\* C16: a POST with threadId answered 201 has stored one post, of that
\* thread, and no thread; a POST without threadId answered 201 had a title
\* and has stored one thread and one post of it; an accepted body without
\* threadId and without title is answered 400, and an accepted body with
\* threadId is never answered 400.
C16_DispatchOnThreadId ==
  /\ (resp.status = 201 /\ IsCreateReply(resp.req))
       => /\ resp.kind = "reply"
          /\ resp.stored = Rows(0, 1)
          /\ resp.data \in posts
          /\ resp.data.thread_id = resp.req.threadId
          /\ resp.data.content = resp.req.content
  /\ (resp.status = 201 /\ IsCreateThread(resp.req))
       => /\ resp.kind = "created"
          /\ ~Falsy(resp.req.title)
          /\ resp.stored = Rows(1, 1)
          /\ \E t \in threads :
               t.id = resp.thread.id /\ t.title = resp.req.title
          /\ \E p \in posts :
               p.thread_id = resp.thread.id /\ p.content = resp.req.content
  /\ (/\ resp.kind # "none"
      /\ resp.req.method = "POST"
      /\ BodyAccepted(resp.req))
       => (resp.status = 400
             <=> (IsCreateThread(resp.req) /\ Falsy(resp.req.title)))

\* C16 witness: a reply is answered 201 in a store of one thread and two
\* posts.
C16_Witness ==
  /\ resp.status = 201
  /\ IsCreateReply(resp.req)
  /\ Cardinality(threads) = 1
  /\ Cardinality(posts) = 2

\* the replies getThread(threadId) returns from the post rows ps
RepliesOf(ps, threadId) == RepliesOrder({p \in ps : p.thread_id = threadId})

C18_AppendOnly ==
  [][/\ posts \subseteq posts'
     /\ \A t \in threads :
          \E u \in threads' :
            /\ u.id = t.id
            /\ u.title = t.title
            /\ u.author_id = t.author_id
            /\ u.created_at = t.created_at
            /\ u.last_activity # t.last_activity
                 => /\ resp'.kind = "reply"
                    /\ resp'.req.threadId = t.id]_vars

\* C18 witness: a reply has changed the lastActivity of its thread while
\* the store holds another thread.
C18_Witness ==
  /\ resp.kind = "reply"
  /\ Cardinality(threads) >= 2
  /\ \E t \in threads :
       t.id = resp.req.threadId /\ t.last_activity > t.created_at

\* C19: every stored post's threadId is the id of a stored thread.
C19_NoOrphanPost ==
  \A p \in posts : \E t \in threads : t.id = p.thread_id

\* C19 witness: a reply to an id of no stored thread has been refused by the
\* store while a createThread request is between its two inserts.
C19_Witness ==
  /\ resp.error = ForeignKeyMessage
  /\ \E c \in inflight : CreatingThread(c)

\* C20: while a provider is mounted its id is the cached one; a provider
\* mounted when the tab holds a cached id takes that id and leaves the
\* cache as it is, and one mounted when the tab holds none caches the id it
\* generates; the cached id changes only by generateNewAnonymousId or at
\* the end of the session.
C20_GetOrCreateIdempotent ==
  /\ [](anonymousId # Null => anonymousId = sessionStorage)
  /\ [][Mount => /\ anonymousId' = sessionStorage'
                 /\ sessionStorage # Null => sessionStorage' = sessionStorage]_vars
  /\ [][(sessionStorage # Null /\ sessionStorage' # sessionStorage)
          => (generateNewAnonymousId \/ EndSession)]_vars

\* C20 witness: the provider mounted by the second page load of a session
\* holds the id generated and cached at the start of the clock.
C20_Witness ==
  /\ loads = 2
  /\ anonymousId # Null
  /\ anonymousId = sessionStorage
  /\ anonymousId = generateAnonymousId(CHOOSE r \in RandomStrings : Len(r) = 3,
                                       ClockStart)
  /\ dateNow > ClockStart

\* the ids generateAnonymousId can return in one behaviour
AllIds ==
  {generateAnonymousId(r, t) :
     r \in RandomStrings, t \in ClockStart..(ClockStart + MaxTicks)}

\* C21: after generateNewAnonymousId the id of the context and the id in
\* sessionStorage are both the id just generated, which replaces the cached
\* one until the next replacement or the end of the session; a provider
\* mounted later in the session takes the id in sessionStorage, the new one.
C21_RegenerateReplaces ==
  /\ [](lastOp = "regenerate"
          => (anonymousId = sessionStorage /\ anonymousId \in AllIds))
  /\ [][lastOp' = "regenerate"
          => \E r \in RandomStrings :
               anonymousId' = generateAnonymousId(r, dateNow')]_vars
  /\ [][(lastOp' \in {"mount", "unload", "render"} /\ sessionStorage # Null)
          => sessionStorage' = sessionStorage]_vars
  /\ [](lastOp = "mount" => anonymousId = sessionStorage)

\* C21 witness: a provider mounted by a reload after a replacement holds an
\* id other than the one replaced.
C21_Witness ==
  /\ lastOp = "mount"
  /\ discarded # Null
  /\ anonymousId # discarded
  /\ anonymousId = sessionStorage

\* C22: whatever the browser lets the page do with sessionStorage, neither
\* the initializer nor generateNewAnonymousId throws, and a page that has
\* been loaded holds an id.
C22_StorageFallback ==
  /\ lastOp \notin {"mountThrew", "regenerateThrew"}
  /\ lastOp \in {"mount", "regenerate"} => anonymousId \in AllIds

\* C23: every id of the context is made of a random string and a reading of
\* the clock only, whatever user id localStorage holds; the end of a session
\* leaves no id in sessionStorage, and the first page load of a session
\* generates its id at that load.
C23_IdIndependent ==
  /\ [](anonymousId # Null => anonymousId \in AllIds)
  /\ [](lastOp = "endSession" => sessionStorage = Null)
  /\ [][(lastOp' = "mount" /\ loads' = 1)
          => \E r \in RandomStrings :
               anonymousId' = generateAnonymousId(r, dateNow')]_vars

\* C23 witness: in a browser holding a user id, the first page load of a
\* session has an id other than the one the session before ended with.
C23_Witness ==
  /\ lastOp = "mount"
  /\ loads = 1
  /\ ended # Null
  /\ anonymousId # Null
  /\ anonymousId # ended
  /\ localStorage # Null

\* C24: the pseudonym of an input is the adjective at index hash mod 10,
\* the noun at index (hash >> 8) mod 10, an index within 0..9, and the
\* number hash mod 900 + 100, for the unsigned 32-bit hash of the input.
C24_PseudonymOfHash ==
  pseudonym.calls > 0
    => LET hash == hashString(OrAnon(pseudonym.last.input))
           out == pseudonym.last.output
       IN /\ out.adjective = ADJECTIVES[HashMod(hash, 10) + 1]
          /\ \E k \in 0..9 : out.noun = NOUNS[k + 1]
          /\ out.noun = NOUNS[((hash.hi * 256 + hash.lo \div 256) % 10) + 1]
          /\ out.number = HashMod(hash, 900) + 100
          /\ out.number \in 100..999

startsWithAnon(authorId) ==
  /\ Len(authorId) >= 5
  /\ SubSeq(authorId, 1, 5) = <<"a", "n", "o", "n", "_">>

\* C26: a POST whose authorId does not start with "anon_" is answered 400
\* and stores nothing, every stored thread and post has an author id that
\* starts with "anon_", and every id of the identity provider starts so.
C26_AnonymizedAuthors ==
  /\ (/\ resp.req.method = "POST"
      /\ ~Falsy(resp.req.authorId)
      /\ ~startsWithAnon(resp.req.authorId))
       => (resp.status = 400 /\ resp.stored = Rows(0, 0))
  /\ \A thread \in threads : startsWithAnon(thread.author_id)
  /\ \A post \in posts : startsWithAnon(post.author_id)
  /\ \A id \in AllIds : startsWithAnon(id)

\* the posts that are replies
Replies == {p \in posts : p.content = ReplyOk}

\* the stored thread with this id
ThreadOf(id) == CHOOSE t \in threads : t.id = id

\* thread a is listed before thread b by listThreads
ListedAhead(a, b) ==
  LET rows == ListOrder(threads)
  IN \E i, j \in 1..Len(rows) : i < j /\ rows[i] = a /\ rows[j] = b

\* C27: once two createReply requests on different threads have both been
\* answered with success, the thread whose reply post was stored later has
\* the greater lastActivity and is listed ahead of the other.
C27_LaterReplyListedFirst ==
  \A p, q \in Replies :
    (/\ inflight = {}
     /\ Cardinality(Replies) = 2
     /\ p.thread_id # q.thread_id
     /\ p.created_at < q.created_at)
      => /\ ThreadOf(q.thread_id).last_activity
              > ThreadOf(p.thread_id).last_activity
         /\ ListedAhead(ThreadOf(q.thread_id), ThreadOf(p.thread_id))

\* C28: once no fetch of the thread page is in flight and the fetch for
\* the current id was answered with the thread, the thread shown is the
\* one of the current id and loading is false.
C28_CurrentThreadShown ==
  (view.pending = {} /\ view.current = "ok")
    => (view.thread = view.id /\ ~view.loading)

\* C29: no send of the chat page starts while loading is true; every send
\* that appends a user message is followed in the end by exactly one
\* appended assistant message, with which loading is false again.
C29_OneAnswerPerSend ==
  /\ [][chat'.users # chat.users => (~chat.loading /\ chat'.loading)]_vars
  /\ [](chat.assistants = chat.users - (IF chat.loading THEN 1 ELSE 0))
  /\ [][chat'.assistants # chat.assistants
         => (/\ chat'.assistants = chat.assistants + 1
             /\ chat.loading
             /\ ~chat'.loading
             /\ chat'.messages[Len(chat'.messages)].role = "assistant")]_vars
  /\ \A n \in 1..MaxSends :
       (chat.users = n) ~> (chat.assistants = n /\ ~chat.loading)

\* C29 witness: two sends, one answered with a reply and one with an error
\* text, and loading is false.
C29_Witness ==
  /\ chat.users = 2
  /\ chat.assistants = 2
  /\ ~chat.loading
  /\ Len(chat.messages) = 4
  /\ chat.messages[2].content = Hello
  /\ chat.messages[4].content = ErrorText(FailedToFetch)

\* C30: a GET of the journal API returns only journal entries and a safety
\* plan stored by the user who asks, also when requests have no x-user-id
\* header.
C30_JournalIsolation ==
  (journal.resp.method = "GET" /\ journal.resp.status = 200)
    => /\ \A i \in 1..Len(journal.resp.entries) :
            journal.resp.entries[i].by = journal.resp.by
       /\ \A p \in journal.resp.plan : p.by = journal.resp.by

====
